---- MODULE Spec2Model ----
(***************************************************************************)
(* The labs [slug] page of the Quansight website: the static-generation    *)
(* hooks getStaticPaths and getStaticProps, the page Container, and the    *)
(* sticky-notes blok adapter getStickyNotesProps.                          *)
(*                                                                         *)
(* A hook invocation is an async function: it issues a CMS request, is     *)
(* suspended at the await, and its continuation runs when the request      *)
(* settles.  Each action below is one such run-to-the-next-await step.     *)
(***************************************************************************)
EXTENDS Integers, Sequences, FiniteSets, TLC

\* ------------------------------------------------------------------ bounds
MaxInvocations == 2
MaxLinks == 2
MaxItems == 2
MaxCalls == 2

Invocations == 1..MaxInvocations

\* -------------------------------------------------------------- JS values
Undefined == [jsType |-> "undefined"]
Null == [jsType |-> "null"]
\* An array that may stand where undefined may.
Array(elems) == [jsType |-> "array", elems |-> elems]

\* A promise, or an async function's outcome.
Pending == [status |-> "pending"]
Fulfilled(v) == [status |-> "fulfilled", value |-> v]
Rejected(e) == [status |-> "rejected", reason |-> e]

RECURSIVE SeqsUpTo(_, _)
SeqsUpTo(S, n) ==
    IF n = 0 THEN {<<>>}
    ELSE LET shorter == SeqsUpTo(S, n - 1)
         IN  shorter \cup {Append(s, x) : s \in {t \in shorter : Len(t) = n - 1}, x \in S}

Count(s, api) == Cardinality({k \in 1..Len(s) : s[k].api = api})

\* --------------------------------------------------------- the CMS (Api)
ApiNames == {"getLinks", "getPageItem", "getFooterItem"}
Slugs == {"about", "team"}
Errors == {"NetworkError", "GraphQLError"}

LinkEntries ==
    { [slug |-> "about", isFolder |-> FALSE],
      [slug |-> "blog", isFolder |-> TRUE] }
LinkLists == SeqsUpTo(LinkEntries, MaxLinks)

\* What Api.getLinks can resolve with: a result carrying no data, or the links.
LinksResponses ==
    {[loading |-> FALSE]} \cup {[data |-> [Links |-> [items |-> Array(l)]]] : l \in LinkLists}

\* Content-type tags (the `component` discriminator of a content record).
Tag(name) == [tag |-> name]
Components == {Tag("page"), Tag("article"), Tag("footer")}
\* A text field of the story of slug.
Text(field, slug) == [text |-> field, of |-> slug]
\* The content records a story of the CMS can carry; content itself is nullable.
Contents(slug) ==
    {Null} \cup
    { [title |-> Text("title", slug), description |-> d, component |-> c] :
        d \in {Text("description", slug), Undefined}, c \in Components }
PublishedContent(slug) ==
    [title |-> Text("title", slug), description |-> Text("description", slug),
     component |-> Tag("page")]
\* What Api.getPageItem({slug}) can resolve with: PageItem is nullable.
PageItems(slug) == {Null, [slug |-> slug, content |-> PublishedContent(slug)]}
PageResponses(slug) == {[data |-> [PageItem |-> p]] : p \in PageItems(slug)}

FooterItems == {Null, [content |-> [component |-> Tag("footer")]]}
FooterResponses == {[data |-> [FooterItem |-> f]] : f \in FooterItems}

\* The props the framework can hand the Container.
ContainerData ==
    {Null} \cup UNION {{[slug |-> s, content |-> c] : c \in Contents(s)} : s \in Slugs}
ContainerProps ==
    {[data |-> d, footer |-> f, preview |-> p] :
        d \in ContainerData, f \in FooterItems, p \in BOOLEAN}

NoResponses == [a \in ApiNames |-> Pending]

\* --------------------------------------------------------------- contexts
\* The context Next.js passes to getStaticProps: params.slug, and preview
\* only in preview mode.
Contexts ==
    {[params |-> [slug |-> s]] : s \in Slugs} \cup
    {[params |-> [slug |-> s], preview |-> p] : s \in Slugs, p \in BOOLEAN}
NoContext == [params |-> Undefined]

VARIABLES
    hook,       \* hook[i]: which exported hook invocation i runs ("none" before it starts)
    ctx,        \* ctx[i]: the context invocation i was called with
    pc,         \* pc[i]: where invocation i is
    preview,    \* preview[i]: getStaticProps' destructured local `preview`
    requests,   \* requests[i]: the Api calls invocation i has made, in order
    inflight,   \* inflight[i]: the Api calls of invocation i not yet settled
    resp,       \* resp[i][api]: how invocation i's call of api settled
    result,     \* result[i]: the outcome of invocation i's promise
    pageProps,  \* the props the framework hands the Container
    rendered,   \* what rendering the Container with pageProps gave
    raw,        \* the raw sticky-notes blok handed to the adapter
    out         \* the adapter's outputs for raw, one per call

vars == <<hook, ctx, pc, preview, requests, inflight, resp, result,
          pageProps, rendered, raw, out>>

\* ------------------------------------------------------------------- Init
HooksIdle ==
    /\ hook = [i \in Invocations |-> "none"]
    /\ ctx = [i \in Invocations |-> NoContext]
    /\ pc = [i \in Invocations |-> "idle"]
    /\ preview = [i \in Invocations |-> FALSE]
    /\ requests = [i \in Invocations |-> <<>>]
    /\ inflight = [i \in Invocations |-> {}]
    /\ resp = [i \in Invocations |-> NoResponses]
    /\ result = [i \in Invocations |-> Pending]

\* Invocations are numbered in the order the framework makes them.
CanStart(i) ==
    /\ pc[i] = "idle"
    /\ IF i = 1 THEN TRUE ELSE pc[i - 1] # "idle"

Request(api, variables) == [api |-> api, variables |-> variables]

\* `const { data } = await ...`: the data property of what the call resolved with.
dataOf(r) == IF "data" \in DOMAIN r THEN r.data ELSE Undefined

\* ---------------------------------------------------------- getStaticPaths
\* getPaths(items): the path list of the link entries, in their order: the
\* entries that are pages, each as {params: {slug}}.
RECURSIVE pagePaths(_)
pagePaths(entries) ==
    IF entries = <<>> THEN <<>>
    ELSE IF Head(entries).isFolder THEN pagePaths(Tail(entries))
    ELSE <<[params |-> [slug |-> Head(entries).slug]]>> \o pagePaths(Tail(entries))

getPaths(items) == IF items = Undefined THEN <<>> ELSE pagePaths(items.elems)

\* data?.Links.items
linksItems(data) == IF data = Undefined THEN Undefined ELSE data.Links.items

\* Without the optional chaining, reading Links of undefined throws.
getStaticPathsReturnUnguarded(data) ==
    IF data = Undefined THEN Rejected("TypeError")
    ELSE Fulfilled([paths |-> getPaths(data.Links.items), fallback |-> FALSE])

\* return { paths: getPaths(data?.Links.items), fallback: false }
getStaticPathsReturn(data) ==
    Fulfilled([paths |-> getPaths(linksItems(data)), fallback |-> FALSE])

\* getStaticPaths is called: it calls Api.getLinks() and awaits it.
getStaticPaths(i) ==
    /\ CanStart(i)
    /\ hook' = [hook EXCEPT ![i] = "getStaticPaths"]
    /\ requests' = [requests EXCEPT ![i] = Append(@, Request("getLinks", Undefined))]
    /\ inflight' = [inflight EXCEPT ![i] = @ \cup {"getLinks"}]
    /\ pc' = [pc EXCEPT ![i] = "awaitGetLinks"]
    /\ UNCHANGED <<ctx, preview, resp, result, pageProps, rendered, raw, out>>

\* Api.getLinks() resolves with r: the continuation returns the paths object.
GetLinksFulfilled(i, r) ==
    /\ pc[i] = "awaitGetLinks"
    /\ "getLinks" \in inflight[i]
    /\ inflight' = [inflight EXCEPT ![i] = @ \ {"getLinks"}]
    /\ resp' = [resp EXCEPT ![i]["getLinks"] = Fulfilled(r)]
    /\ result' = [result EXCEPT ![i] = getStaticPathsReturn(dataOf(r))]
    /\ pc' = [pc EXCEPT ![i] = IF result'[i].status = "fulfilled" THEN "returned" ELSE "rejected"]
    /\ UNCHANGED <<hook, ctx, preview, requests, pageProps, rendered, raw, out>>

\* An awaited call rejects with e and no handler catches it: the hook's own
\* promise rejects with e.
AwaitThrows(i, api, e) ==
    /\ inflight' = [inflight EXCEPT ![i] = @ \ {api}]
    /\ resp' = [resp EXCEPT ![i][api] = Rejected(e)]
    /\ result' = [result EXCEPT ![i] = Rejected(e)]
    /\ pc' = [pc EXCEPT ![i] = "rejected"]
    /\ UNCHANGED <<hook, ctx, preview, requests, pageProps, rendered, raw, out>>

GetLinksRejected(i, e) ==
    /\ pc[i] = "awaitGetLinks"
    /\ "getLinks" \in inflight[i]
    /\ AwaitThrows(i, "getLinks", e)

\* ---------------------------------------------------------- getStaticProps
\* The parameter default written `preview = true`.
previewOrDefaultTrue(context) ==
    IF "preview" \in DOMAIN context THEN context.preview ELSE TRUE

\* The parameter default `preview = false`.
previewOrDefault(context) ==
    IF "preview" \in DOMAIN context THEN context.preview ELSE FALSE

\* return { props: { data: data.PageItem, footer: footer.FooterItem, preview } }
getStaticPropsReturn(data, footer, pv) ==
    Fulfilled([props |-> [data |-> data.PageItem,
                          footer |-> footer.FooterItem,
                          preview |-> pv]])

\* getStaticProps starting both fetches at once (Promise.all).
getStaticPropsParallel(i, context) ==
    /\ CanStart(i)
    /\ hook' = [hook EXCEPT ![i] = "getStaticProps"]
    /\ ctx' = [ctx EXCEPT ![i] = context]
    /\ preview' = [preview EXCEPT ![i] = previewOrDefault(context)]
    /\ requests' = [requests EXCEPT
                      ![i] = @ \o <<Request("getPageItem", [slug |-> context.params.slug]),
                                     Request("getFooterItem", Undefined)>>]
    /\ inflight' = [inflight EXCEPT ![i] = @ \cup {"getPageItem", "getFooterItem"}]
    /\ pc' = [pc EXCEPT ![i] = "awaitGetPageItem"]
    /\ UNCHANGED <<resp, result, pageProps, rendered, raw, out>>

\* getStaticProps serving a slug an earlier invocation fetched from a
\* module-level cache of that invocation's result.
getStaticPropsCached(i, context) ==
    LET hits == {j \in Invocations :
                    /\ j < i
                    /\ hook[j] = "getStaticProps"
                    /\ pc[j] = "returned"
                    /\ ctx[j].params.slug = context.params.slug}
    IN  /\ CanStart(i)
        /\ hook' = [hook EXCEPT ![i] = "getStaticProps"]
        /\ ctx' = [ctx EXCEPT ![i] = context]
        /\ preview' = [preview EXCEPT ![i] = previewOrDefault(context)]
        /\ IF hits # {}
           THEN LET j == CHOOSE j \in hits : TRUE
                IN  /\ result' = [result EXCEPT
                                    ![i] = Fulfilled([props |->
                                               [result[j].value.props EXCEPT
                                                  !.preview = previewOrDefault(context)]])]
                    /\ pc' = [pc EXCEPT ![i] = "returned"]
                    /\ UNCHANGED <<requests, inflight>>
           ELSE /\ requests' = [requests EXCEPT
                                  ![i] = Append(@, Request("getPageItem",
                                                           [slug |-> context.params.slug]))]
                /\ inflight' = [inflight EXCEPT ![i] = @ \cup {"getPageItem"}]
                /\ pc' = [pc EXCEPT ![i] = "awaitGetPageItem"]
                /\ UNCHANGED result
        /\ UNCHANGED <<resp, pageProps, rendered, raw, out>>

\* getStaticProps is called with context: it destructures slug and preview,
\* calls Api.getPageItem({ slug }) and awaits it.
getStaticProps(i, context) ==
    /\ CanStart(i)
    /\ hook' = [hook EXCEPT ![i] = "getStaticProps"]
    /\ ctx' = [ctx EXCEPT ![i] = context]
    /\ preview' = [preview EXCEPT ![i] = previewOrDefault(context)]
    /\ requests' = [requests EXCEPT
                      ![i] = Append(@, Request("getPageItem", [slug |-> context.params.slug]))]
    /\ inflight' = [inflight EXCEPT ![i] = @ \cup {"getPageItem"}]
    /\ pc' = [pc EXCEPT ![i] = "awaitGetPageItem"]
    /\ UNCHANGED <<resp, result, pageProps, rendered, raw, out>>

\* The slug Api.getPageItem was last called with by invocation i.
RequestedSlug(i) ==
    LET ks == {k \in 1..Len(requests[i]) : requests[i][k].api = "getPageItem"}
        last == CHOOSE k \in ks : \A m \in ks : m <= k
    IN  requests[i][last].variables.slug

\* What the CMS can answer invocation i's pending page request with.
PageResponsesFor(i) ==
    IF "getPageItem" \in inflight[i] THEN PageResponses(RequestedSlug(i)) ELSE {}

\* Api.getPageItem resolves with r: the continuation calls Api.getFooterItem()
\* and awaits it.
GetPageItemFulfilled(i, r) ==
    /\ pc[i] = "awaitGetPageItem"
    /\ "getPageItem" \in inflight[i]
    /\ resp' = [resp EXCEPT ![i]["getPageItem"] = Fulfilled(r)]
    /\ requests' = [requests EXCEPT ![i] = Append(@, Request("getFooterItem", Undefined))]
    /\ inflight' = [inflight EXCEPT ![i] = (@ \ {"getPageItem"}) \cup {"getFooterItem"}]
    /\ pc' = [pc EXCEPT ![i] = "awaitGetFooterItem"]
    /\ UNCHANGED <<hook, ctx, preview, result, pageProps, rendered, raw, out>>

\* A rejected page fetch retried once before giving up.
GetPageItemRejectedRetry(i, e) ==
    /\ pc[i] = "awaitGetPageItem"
    /\ "getPageItem" \in inflight[i]
    /\ IF Count(requests[i], "getPageItem") < 2
       THEN /\ requests' = [requests EXCEPT
                              ![i] = Append(@, Request("getPageItem",
                                                       [slug |-> ctx[i].params.slug]))]
            /\ resp' = [resp EXCEPT ![i]["getPageItem"] = Rejected(e)]
            /\ UNCHANGED <<hook, ctx, pc, preview, inflight, result,
                           pageProps, rendered, raw, out>>
       ELSE AwaitThrows(i, "getPageItem", e)

GetPageItemRejected(i, e) ==
    /\ pc[i] = "awaitGetPageItem"
    /\ "getPageItem" \in inflight[i]
    /\ AwaitThrows(i, "getPageItem", e)

\* Api.getFooterItem resolves with r: the continuation returns the props object.
GetFooterItemFulfilled(i, r) ==
    /\ pc[i] = "awaitGetFooterItem"
    /\ "getFooterItem" \in inflight[i]
    /\ inflight' = [inflight EXCEPT ![i] = @ \ {"getFooterItem"}]
    /\ resp' = [resp EXCEPT ![i]["getFooterItem"] = Fulfilled(r)]
    /\ result' = [result EXCEPT
                    ![i] = getStaticPropsReturn(dataOf(resp[i]["getPageItem"].value),
                                                dataOf(r), preview[i])]
    /\ pc' = [pc EXCEPT ![i] = "returned"]
    /\ UNCHANGED <<hook, ctx, preview, requests, pageProps, rendered, raw, out>>

\* A rejected footer fetch caught, and the props returned without the footer.
GetFooterItemRejectedCaught(i, e) ==
    /\ pc[i] = "awaitGetFooterItem"
    /\ "getFooterItem" \in inflight[i]
    /\ inflight' = [inflight EXCEPT ![i] = @ \ {"getFooterItem"}]
    /\ resp' = [resp EXCEPT ![i]["getFooterItem"] = Rejected(e)]
    /\ result' = [result EXCEPT
                    ![i] = Fulfilled([props |->
                               [data |-> dataOf(resp[i]["getPageItem"].value).PageItem,
                                preview |-> preview[i]]])]
    /\ pc' = [pc EXCEPT ![i] = "returned"]
    /\ UNCHANGED <<hook, ctx, preview, requests, pageProps, rendered, raw, out>>

GetFooterItemRejected(i, e) ==
    /\ pc[i] = "awaitGetFooterItem"
    /\ "getFooterItem" \in inflight[i]
    /\ AwaitThrows(i, "getFooterItem", e)

\* ---------------------------------------------------------------- Container
DomainVariantLabs == "Labs"
NoElement == [type |-> "false"]

\* isPageType(component): whether the content-type tag is the page type.
isPageType(component) == component = Tag("page")

\* data?.content?.component
guardComponent(data) ==
    IF data \in {Null, Undefined} THEN Undefined
    ELSE IF data.content \in {Null, Undefined} THEN Undefined
    ELSE data.content.component

\* <SEO title={data.content.title} description={data.content.description}
\*      variant={DomainVariant.Labs} />
SEOElement(data) ==
    [type |-> "SEO",
     props |-> [title |-> data.content.title,
                description |-> data.content.description,
                variant |-> DomainVariantLabs]]

\* <Page data={data} preview={preview}>{(blok) => <BlokProvider blok={blok} />}</Page>
PageElement(data, pv) ==
    [type |-> "Page",
     props |-> [data |-> data, preview |-> pv],
     children |-> "BlokProvider"]

\* The Page rendered whatever the content type.
PageSlotUnguarded(data, pv) == PageElement(data, pv)

\* {isPageType(data?.content?.component) && <Page ...>}
PageSlot(data, pv) ==
    IF isPageType(guardComponent(data)) THEN PageElement(data, pv) ELSE NoElement

\* The Container function applied to props.  Reading data.content.title
\* throws a TypeError when data or data.content is null or undefined.
Container(props) ==
    IF props.data \in {Null, Undefined} THEN Rejected("TypeError")
    ELSE IF props.data.content \in {Null, Undefined} THEN Rejected("TypeError")
    ELSE Fulfilled([type |-> "Layout",
                    props |-> [footer |-> props.footer],
                    children |-> <<SEOElement(props.data),
                                   PageSlot(props.data, props.preview)>>])

\* The framework renders the page: it calls Container(pageProps).
Render ==
    /\ rendered = Pending
    /\ rendered' = Container(pageProps)
    /\ UNCHANGED <<hook, ctx, pc, preview, requests, inflight, resp, result,
                   pageProps, raw, out>>

\* ------------------------------------------------------------ hooks' Spec
NoPage ==
    /\ pageProps = [data |-> Null, footer |-> Null, preview |-> FALSE]
    /\ rendered = Pending

NoBlok ==
    /\ raw = [variant |-> "none", items |-> <<>>]
    /\ out = <<>>

Init == HooksIdle /\ NoPage /\ NoBlok

Next ==
    \/ \E i \in Invocations : getStaticPaths(i)
    \/ \E i \in Invocations : \E r \in LinksResponses : GetLinksFulfilled(i, r)
    \/ \E i \in Invocations : \E e \in Errors : GetLinksRejected(i, e)
    \/ \E i \in Invocations : \E c \in Contexts : getStaticProps(i, c)
    \/ \E i \in Invocations : \E r \in PageResponsesFor(i) : GetPageItemFulfilled(i, r)
    \/ \E i \in Invocations : \E e \in Errors : GetPageItemRejected(i, e)
    \/ \E i \in Invocations : \E r \in FooterResponses : GetFooterItemFulfilled(i, r)
    \/ \E i \in Invocations : \E e \in Errors : GetFooterItemRejected(i, e)

Spec == Init /\ [][Next]_vars

\* --------------------------------------------------------- Container's Spec
InitContainer ==
    /\ HooksIdle
    /\ NoBlok
    /\ pageProps \in ContainerProps
    /\ rendered = Pending

NextContainer == Render

SpecContainer == InitContainer /\ [][NextContainer]_vars

\* ------------------------------------------------------ sticky-notes blok
\* The link field of a raw item, as the CMS stores it.
StickyLinks ==
    { [linktype |-> "story", cached_url |-> "about"],
      [linktype |-> "story", cached_url |-> "team"] }

\* A raw sticky-notes item (TStickyNotesRawData's items).
StickyItem(id, link) ==
    [component |-> Tag("sticky-notes-item"),
     title |-> Text("title", id),
     description |-> Text("description", id),
     descriptionSize |-> Text("descriptionSize", id),
     buttonText |-> Text("buttonText", id),
     variant |-> Text("variant", id),
     link |-> link]
StickyItems == {StickyItem(id, l) : id \in {"a", "b"}, l \in StickyLinks}
StickyVariants == {"primary", "secondary"}

\* The raw sticky-notes bloks (TStickyNotesRawData).
RawBloks ==
    { [component |-> Tag("sticky-notes"), variant |-> v, items |-> l] :
        v \in StickyVariants, l \in SeqsUpTo(StickyItems, MaxItems) }

\* getUrl(link): the URL the link resolves to.
getUrl(link) == [absoluteUrl |-> link.cached_url]

\* The callback with the link passed through unresolved.
StickyItemPropsRawLink(item) ==
    [title |-> item.title,
     description |-> item.description,
     descriptionSize |-> item.descriptionSize,
     buttonText |-> item.buttonText,
     variant |-> item.variant,
     buttonLink |-> item.link]

\* The callback of data.items.map.
StickyItemProps(item) ==
    [title |-> item.title,
     description |-> item.description,
     descriptionSize |-> item.descriptionSize,
     buttonText |-> item.buttonText,
     variant |-> item.variant,
     buttonLink |-> getUrl(item.link)]

Reverse(s) == [k \in 1..Len(s) |-> s[Len(s) + 1 - k]]

\* The adapter mapping the items in reverse order.
getStickyNotesPropsReversed(data) ==
    [variant |-> data.variant,
     items |-> [k \in 1..Len(data.items) |->
                  StickyItemProps(Reverse(data.items)[k])]]

\* data.items.map builds a new array: the callback applied to each element, in order.
getStickyNotesProps(data) ==
    [variant |-> data.variant,
     items |-> [k \in 1..Len(data.items) |-> StickyItemProps(data.items[k])]]

\* A call that reverses data.items in place (Array.prototype.reverse) before mapping.
StickyNotesCallInPlace(data) ==
    [returns |-> getStickyNotesPropsReversed(data),
     data |-> [data EXCEPT !.items = Reverse(data.items)]]

\* A call getStickyNotesProps(data): what it returns, and the argument object
\* after it (the function assigns to nothing).
StickyNotesCall(data) ==
    [returns |-> getStickyNotesProps(data), data |-> data]

\* The blok renderer calls the adapter on the raw blok.
CallAdapter ==
    /\ Len(out) < MaxCalls
    /\ LET call == StickyNotesCall(raw)
       IN  /\ out' = Append(out, call.returns)
           /\ raw' = call.data
    /\ UNCHANGED <<hook, ctx, pc, preview, requests, inflight, resp, result,
                   pageProps, rendered>>

InitStickyNotes ==
    /\ HooksIdle
    /\ NoPage
    /\ raw \in RawBloks
    /\ out = <<>>

NextStickyNotes == CallAdapter

SpecStickyNotes == InitStickyNotes /\ [][NextStickyNotes]_vars

\* ========================================================== the claims
\* ---------------------------------------------------------------- C1
StickyItemFields ==
    {"title", "description", "descriptionSize", "buttonText", "variant", "buttonLink"}

\* C1: every prop object getStickyNotesProps returns for a raw sticky-notes
\* blok has exactly the fields variant and items; variant is the input's
\* variant; every element of items has the six expected fields, the first five
\* equal to the input item's, and buttonLink the URL getUrl resolves the item's
\* link to, never the raw link.
C1_AllFieldsPresentAndResolved ==
    \A k \in 1..Len(out) :
        /\ DOMAIN out[k] = {"variant", "items"}
        /\ out[k].variant = raw.variant
        /\ DOMAIN out[k].items = DOMAIN raw.items
        /\ \A j \in DOMAIN raw.items :
              LET o == out[k].items[j]
                  item == raw.items[j]
              IN  /\ DOMAIN o = StickyItemFields
                  /\ o.title = item.title
                  /\ o.description = item.description
                  /\ o.descriptionSize = item.descriptionSize
                  /\ o.buttonText = item.buttonText
                  /\ o.variant = item.variant
                  /\ o.buttonLink = getUrl(item.link)
                  /\ o.buttonLink # item.link

\* The adapter has been called on a blok with two items of different links.
C1_Witness ==
    /\ Len(out) >= 1
    /\ Len(raw.items) = 2
    /\ raw.items[1].link # raw.items[2].link

\* ---------------------------------------------------------------- C7
\* C7: the output items list has the input's length, and its element at
\* position j is what the adapter gives for the input item at position j
\* taken alone: nothing is dropped, duplicated, filtered or reordered.
C7_OrderAndCountPreserved ==
    \A k \in 1..Len(out) :
        /\ Len(out[k].items) = Len(raw.items)
        /\ \A j \in 1..Len(raw.items) :
              out[k].items[j] =
                  getStickyNotesProps([raw EXCEPT !.items = <<raw.items[j]>>]).items[1]

\* The adapter has been called on a blok with two different items.
C7_Witness ==
    /\ Len(out) >= 1
    /\ Len(raw.items) = 2
    /\ raw.items[1] # raw.items[2]

\* ---------------------------------------------------------------- C9
\* C9: a call of getStickyNotesProps leaves its input record as it was
\* (variant, items, every field of every item, the link included), and every
\* call on the same input returns what the first call returned.
C9_InputUnchangedAndRepeatable ==
    [][Len(out') = Len(out) + 1 =>
         /\ raw' = raw
         /\ \A k \in 1..Len(out') : out'[k] = out'[1]]_vars

\* The adapter has been called twice on a blok with two different items.
C9_Witness ==
    /\ Len(out) = 2
    /\ Len(raw.items) = 2
    /\ raw.items[1] # raw.items[2]

\* ---------------------------------------------------------------- C2
Settled(i) == pc[i] \in {"returned", "rejected"}

\* C2: when a CMS fetch of an invocation has rejected, the invocation's own
\* promise is rejected with that same failure and carries no returned object:
\* no paths object after Api.getLinks fails, no props object (whole or
\* partial) after Api.getPageItem or Api.getFooterItem fails.
C2_FetchFailurePropagates ==
    \A i \in Invocations : \A api \in ApiNames :
        resp[i][api].status = "rejected" =>
            /\ pc[i] = "rejected"
            /\ result[i] = Rejected(resp[i][api].reason)
            /\ "value" \notin DOMAIN result[i]

\* One invocation's footer fetch failed after its page fetch succeeded, and
\* another invocation's links fetch failed.
C2_Witness ==
    \E i, j \in Invocations :
        /\ resp[i]["getPageItem"].status = "fulfilled"
        /\ resp[i]["getFooterItem"].status = "rejected"
        /\ resp[j]["getLinks"].status = "rejected"

\* ---------------------------------------------------------------- C3
\* C3: within one getStaticProps invocation the page and footer requests are
\* never in flight together; a footer request has been made only if the page
\* request resolved successfully; after a failed page request there is none.
C3_FetchesSequential ==
    \A i \in Invocations :
        /\ ~({"getPageItem", "getFooterItem"} \subseteq inflight[i])
        /\ Count(requests[i], "getFooterItem") > 0 =>
               resp[i]["getPageItem"].status = "fulfilled"
        /\ resp[i]["getPageItem"].status = "rejected" =>
               Count(requests[i], "getFooterItem") = 0

\* One invocation has its footer request in flight, and another's page
\* request has failed.
C3_Witness ==
    \E i, j \in Invocations :
        /\ "getFooterItem" \in inflight[i]
        /\ resp[j]["getPageItem"].status = "rejected"
        /\ pc[j] = "rejected"

\* ---------------------------------------------------------------- C4
\* C4: in any one invocation each Api function is called at most once,
\* whether its call succeeded or failed; getStaticPaths calls only
\* Api.getLinks, and getStaticProps only Api.getPageItem and Api.getFooterItem.
C4_SingleShot ==
    \A i \in Invocations :
        /\ \A api \in ApiNames : Count(requests[i], api) <= 1
        /\ hook[i] = "getStaticPaths" =>
               \A k \in 1..Len(requests[i]) : requests[i][k].api = "getLinks"
        /\ hook[i] = "getStaticProps" =>
               \A k \in 1..Len(requests[i]) : requests[i][k].api # "getLinks"

\* One invocation ended on a failed page fetch, another on a failed links fetch.
C4_Witness ==
    \E i, j \in Invocations :
        /\ pc[i] = "rejected"
        /\ resp[i]["getPageItem"].status = "rejected"
        /\ Count(requests[i], "getPageItem") = 1
        /\ pc[j] = "rejected"
        /\ resp[j]["getLinks"].status = "rejected"
        /\ Count(requests[j], "getLinks") = 1

C6_PathsReturned ==
    \A i \in Invocations :
        resp[i]["getLinks"].status = "fulfilled" =>
            LET r == resp[i]["getLinks"].value
                items == IF "data" \in DOMAIN r THEN r.data.Links.items ELSE Undefined
            IN  /\ pc[i] = "returned"
                /\ result[i].status = "fulfilled"
                /\ result[i].value = [paths |-> getPaths(items), fallback |-> FALSE]

\* One invocation got a response without data, another a list of two links.
C6_Witness ==
    \E i, j \in Invocations :
        /\ resp[i]["getLinks"].status = "fulfilled"
        /\ "data" \notin DOMAIN resp[i]["getLinks"].value
        /\ pc[i] = "returned"
        /\ resp[j]["getLinks"].status = "fulfilled"
        /\ "data" \in DOMAIN resp[j]["getLinks"].value
        /\ Len(resp[j]["getLinks"].value.data.Links.items.elems) = 2
        /\ Len(result[j].value.paths) = 1

Composed(props) ==
    [type |-> "Layout",
     props |-> [footer |-> props.footer],
     children |->
        << [type |-> "SEO",
            props |-> [title |-> props.data.content.title,
                       description |-> props.data.content.description,
                       variant |-> "Labs"]],
           IF isPageType(props.data.content.component)
           THEN [type |-> "Page",
                 props |-> [data |-> props.data, preview |-> props.preview],
                 children |-> "BlokProvider"]
           ELSE NoElement >>]

HasContent(props) ==
    IF props.data = Null THEN FALSE ELSE props.data.content # Null

\* C10: for every props whose data carries the content record the claim
\* reads (data.content), the Container returns the Layout given the footer,
\* holding the SEO metadata (title and description of data.content, variant
\* Labs) and then the Page with the blok renderer if and only if
\* isPageType(data.content.component): for a tag that is not a page type the
\* Layout and the SEO are there and no Page is.
C10_ContainerComposes ==
    (rendered # Pending /\ HasContent(pageProps)) =>
        /\ rendered.status = "fulfilled"
        /\ rendered.value = Composed(pageProps)

\* The Container has been rendered with content whose tag is not a page type.
C10_Witness ==
    /\ rendered # Pending
    /\ HasContent(pageProps)
    /\ ~isPageType(pageProps.data.content.component)
    /\ rendered.value.children[2] = NoElement

\* --------------------------------------------------------------- C11
\* C11: for every props whose data or data.content is absent (the values
\* the guard data?.content?.component lets through as "not a page type"),
\* rendering the Container raises no error: it returns the Layout, and the
\* Layout holds no Page.
C11_RendersWithoutContent ==
    (rendered # Pending /\ ~HasContent(pageProps)) =>
        /\ ~isPageType(guardComponent(pageProps.data))
        /\ rendered.status = "fulfilled"
        /\ rendered.value.type = "Layout"
        /\ rendered.value.children[2] = NoElement

====
